---- MODULE Spec2Model ----
(***************************************************************************)
(* BIO-OPT: model of the two notebooks of the repository.                  *)
(*                                                                         *)
(*  - BIO-OPT-MOO.ipynb: the cells of the multi-objective notebook, run    *)
(*    top to bottom over the rows of the input sheet (feasibility filter,  *)
(*    non-dominated sorting, output table, lowest-GWP / highest-NPV /      *)
(*    balanced configurations).                                            *)
(*  - README.md (BIO-OPT-LCA notebook): the class biorefinery_LCA, whose   *)
(*    methods are called in any order on one object.                       *)
(*                                                                         *)
(* Python lists are sequences; list positions are 1-based here (Python     *)
(* position k is position k+1 of the sequence).  A point is the tuple      *)
(* <<gwp, npv>>, a row of filtered_data the tuple                          *)
(* <<gwp, npv, bioethanol %, vanillin %, furfural %>>.                     *)
(***************************************************************************)
EXTENDS Integers, Sequences, FiniteSets, TLC

VARIABLES pc, df, filtered_data, filtered_points, pareto_front,
          optimal_indices, pareto_df, min_gwp_index, max_npv_index,
          knee_index

mooVars == <<pc, df, filtered_data, filtered_points, pareto_front,
             optimal_indices, pareto_df, min_gwp_index, max_npv_index,
             knee_index>>

\* attributes of the biorefinery_LCA object, and how the last call on it ended
VARIABLES analysis_done, LCA_results_dict, top_processes_dict, calc_done,
          FU_codes, lcia_methods, impact_of_interest, n_top_items,
          techno_impact_results_grouped, data_to_plot_dict, assigned,
          called, raised

lcaVars == <<analysis_done, LCA_results_dict, top_processes_dict, calc_done,
             FU_codes, lcia_methods, impact_of_interest, n_top_items,
             techno_impact_results_grouped, data_to_plot_dict, assigned,
             called, raised>>

\* the sweep of functional units: the share the comprehension is at, the
\* FU_codes dictionary it has built, and the amounts of the scenario it has
\* just generated
VARIABLES sweep_i, sweep_FU_codes, allocation

sweepVars == <<sweep_i, sweep_FU_codes, allocation>>

vars == <<mooVars, lcaVars, sweepVars>>

(***************************************************************************)
(* Bounds and input values.                                                *)
(***************************************************************************)
MaxRows == 3

GwpVals == {-10, -8, -5}
NpvVals == {0, 1, 3, 6}
PercentVals == {<<50, 30, 20>>, <<20, 30, 50>>}

\* one row of the sheet: columns 15, 19, 0, 1, 2 (the only ones the notebook reads)
SheetRows == {<<g, n, a[1], a[2], a[3]>> : g \in GwpVals, n \in NpvVals, a \in PercentVals}

RECURSIVE SeqsUpTo(_, _)
SeqsUpTo(S, n) ==
    IF n = 0 THEN {<<>>}
    ELSE LET shorter == SeqsUpTo(S, n - 1)
         IN  shorter \cup {Append(s, x) : s \in {t \in shorter : Len(t) = n - 1}, x \in S}

(***************************************************************************)
(* Helpers of the notebook.                                                *)
(***************************************************************************)
Range(s) == {s[i] : i \in 1..Len(s)}

\* [(gwp, npv, be[i], va[i], fu[i]) for i, (gwp, npv) in enumerate(zip(GWP, NPV)) if npv > 0]
feasible_nonneg(row) == row[2] >= 0
feasible(row) == row[2] > 0
FilterData(d) == SelectSeq(d, feasible)

\* is_dominated(point, others)
is_dominated_noself(point, others) ==
    \E k \in 1..Len(others) :
        others[k][1] <= point[1] /\ others[k][2] >= point[2]
is_dominated_strict(point, others) ==
    \E k \in 1..Len(others) :
        others[k][1] < point[1] /\ others[k][2] > point[2]
is_dominated(point, others) ==
    \E k \in 1..Len(others) :
        (others[k][1] <= point[1] /\ others[k][2] >= point[2]) /\ others[k] # point

\* [point for point in filtered_points if not is_dominated(point, filtered_points)]
ParetoFront_skipfirst(points) ==
    LET rest == IF points = <<>> THEN <<>> ELSE Tail(points)
        keep(point) == ~ is_dominated(point, rest)
    IN  SelectSeq(rest, keep)
ParetoFront(points) ==
    LET keep(point) == ~ is_dominated(point, points)
    IN  SelectSeq(points, keep)

\* list.index(x): position of the first element equal to x
index(list, x) == CHOOSE i \in 1..Len(list) :
    list[i] = x /\ \A j \in 1..Len(list) : list[j] = x => i <= j

\* np.argmin / np.argmax: position of the first occurrence of the extreme value
argmin_last(list) == CHOOSE i \in 1..Len(list) :
    /\ \A j \in 1..Len(list) : list[i] <= list[j]
    /\ \A j \in 1..Len(list) : list[j] = list[i] => j <= i
argmin(list) == CHOOSE i \in 1..Len(list) :
    /\ \A j \in 1..Len(list) : list[i] <= list[j]
    /\ \A j \in 1..Len(list) : list[j] = list[i] => i <= j
argmax_last(list) == CHOOSE i \in 1..Len(list) :
    /\ \A j \in 1..Len(list) : list[i] >= list[j]
    /\ \A j \in 1..Len(list) : list[j] = list[i] => j <= i
argmax(list) == CHOOSE i \in 1..Len(list) :
    /\ \A j \in 1..Len(list) : list[i] >= list[j]
    /\ \A j \in 1..Len(list) : list[j] = list[i] => i <= j

\* min(...) / max(...) of a non-empty list
min(list) == list[argmin(list)]
max(list) == list[argmax(list)]

\* scipy euclidean(u, v) is sqrt((u0-v0)^2 + (u1-v1)^2).  The square root is
\* strictly increasing and exact enough to keep distinct small integers
\* distinct, so np.argmin over the distances is np.argmin over their squares;
\* the model keeps the square.
euclidean(u, v) == (u[1] - v[1]) * (u[1] - v[1]) + (u[2] - v[2]) * (u[2] - v[2])

pareto_GWP(front) == [k \in 1..Len(front) |-> front[k][1]]
pareto_NPV(front) == [k \in 1..Len(front) |-> front[k][2]]

ideal_gwp(front) == min(pareto_GWP(front))
ideal_npv(front) == max(pareto_NPV(front))

distances(front) ==
    [k \in 1..Len(front) |-> euclidean(front[k], <<ideal_gwp(front), ideal_npv(front)>>)]

(***************************************************************************)
(* The notebook BIO-OPT-MOO, cell by cell.                                 *)
(***************************************************************************)
InitMOO ==
    /\ pc = "filter"
    /\ filtered_data = <<>>
    /\ filtered_points = <<>>
    /\ pareto_front = <<>>
    /\ optimal_indices = <<>>
    /\ pareto_df = <<>>
    /\ min_gwp_index = 0
    /\ max_npv_index = 0
    /\ knee_index = 0

(***************************************************************************)
(* The sweep of functional units (README.md):                              *)
(*   FU_codes = {f'Vanillin {i}% production': f'ThisIsFU{i}'               *)
(*               for i in range(100, 0, -1)}                               *)
(* One step generates one scenario.  The swept product gets i % of the     *)
(* feedstock; the amounts of the two other products are not computed in    *)
(* the repository (they come with the input workbooks), so they are any    *)
(* split of the remaining 100 - i that gives both of them a positive       *)
(* amount whenever there is something left to split.  Amounts are counted  *)
(* in half percents, so that one remaining percent can be split in two.    *)
(***************************************************************************)
SweepFrom == 100
SweepStop == 0
SweepStep == 1
HalvesPerUnit == 2

\* f'Vanillin {i}% production' and f'ThisIsFU{i}'
FU_name_of(i) == <<"Vanillin", i, "% production">>
FU_code_of(i) == <<"ThisIsFU", i>>

\* the amounts <<swept product, second product, third product>> a scenario
\* with share i may have
Allocations(i) ==
    LET rest == HalvesPerUnit * (SweepFrom - i)
    IN  IF rest = 0
        THEN {<<HalvesPerUnit * i, 0, 0>>}
        ELSE {<<HalvesPerUnit * i, a, rest - a>> : a \in 1..(rest - 1)}

InitSweep ==
    /\ sweep_i = SweepFrom
    /\ sweep_FU_codes = <<>>
    /\ allocation = <<>>

\* one iteration of the dict comprehension over range(100, 0, -1)
GenerateScenario ==
    /\ sweep_i > SweepStop
    /\ sweep_FU_codes' = Append(sweep_FU_codes, <<FU_name_of(sweep_i), FU_code_of(sweep_i)>>)
    /\ allocation' \in Allocations(sweep_i)
    /\ sweep_i' = sweep_i - SweepStep
    /\ UNCHANGED <<mooVars, lcaVars>>

(***************************************************************************)
(* The class biorefinery_LCA (README.md).                                  *)
(*                                                                         *)
(* Dictionaries are functions; a dictionary whose order of insertion       *)
(* matters (FU_codes) is a sequence of <<key, value>> pairs with distinct  *)
(* keys.  assigned is the set of the attributes the object has; an         *)
(* attribute that no method has assigned yet is not in it, and its         *)
(* variable holds an empty value of its type.                              *)
(* Brightway is outside the repository: the database is a fixed set of     *)
(* activities, and LCA(...).score a fixed function of activity, amount and *)
(* method.                                                                 *)
(***************************************************************************)
EmptyDict == <<>>
NoKey == "none"

\* impact methods registered in Brightway; keys usable as functional-unit names
\* (any hashable value is a legal key of FU_codes, a method tuple included)
Methods == {"m1", "m2"}
FUNames == {"fu1", "m1"}
Keys == Methods \cup FUNames
Codes == {"c1", "cX"}
PlotData == {"top_processes", "group_tags"}

\* the foreground database: activities by code, and their technosphere exchanges
Activities == {"c1", "c2"}
technosphere(act) ==
    IF act = "c1"
    THEN << [input |-> "c2", amount |-> 2, group_tag |-> "energy"],
            [input |-> "c2", amount |-> 1, group_tag |-> "feedstock"],
            [input |-> "c2", amount |-> 3, group_tag |-> "energy"] >>
    ELSE << [input |-> "c2", amount |-> 1, group_tag |-> "waste"] >>

\* LCA({activity: amount}, method); lci(); lcia(); .score
UnitScore(act, method) ==
    (IF act = "c1" THEN 5 ELSE 2) * (IF method = "m1" THEN 1 ELSE 3)
score(act, amount, method) == amount * UnitScore(act, method)

\* ContributionAnalysis().annotated_top_processes(lca)
annotated_top_processes(act, amount, method) == <<act, amount, method>>

\* [act for act in db if act['code'] == FU_code]
activities_with_code(FU_code) ==
    IF FU_code \in Activities THEN <<FU_code>> ELSE <<>>

FUCodeDicts ==
    {s \in SeqsUpTo(FUNames \X Codes, Cardinality(FUNames)) :
        \A i, j \in 1..Len(s) : s[i][1] = s[j][1] => i = j}
MethodLists ==
    {s \in SeqsUpTo(Methods, Cardinality(Methods)) :
        \A i, j \in 1..Len(s) : s[i] = s[j] => i = j}
\* vanillin_production_values: production amount by name, for some of the names
ProductionAmount(name) == IF name = "fu1" THEN 1 ELSE 2
ProductionDicts == {[name \in S |-> ProductionAmount(name)] : S \in SUBSET FUNames}

\* biorefinery_LCA.__init__
InitObject ==
    /\ analysis_done = FALSE
    /\ LCA_results_dict = EmptyDict
    /\ assigned = {"analysis_done", "LCA_results_dict"}
    /\ top_processes_dict = EmptyDict
    /\ calc_done = FALSE
    /\ FU_codes = <<>>
    /\ lcia_methods = <<>>
    /\ impact_of_interest = NoKey
    /\ n_top_items = 0
    /\ techno_impact_results_grouped = EmptyDict
    /\ data_to_plot_dict = NoKey
    /\ called = "__init__"
    /\ raised = ""

InitLCA ==
    /\ df = <<>>
    /\ InitMOO
    /\ InitObject
    /\ InitSweep

\* the first functional unit of the loop whose body raises, Len + 1 if none:
\* IndexError from [...][0] on an unknown code, else KeyError from
\* vanillin_production[FU_name]
FirstFailure(codes, vanillin_production) ==
    LET bad(k) == \/ activities_with_code(codes[k][2]) = <<>>
                  \/ codes[k][1] \notin DOMAIN vanillin_production
    IN  IF \E k \in 1..Len(codes) : bad(k)
        THEN CHOOSE k \in 1..Len(codes) : bad(k) /\ \A j \in 1..(k - 1) : ~ bad(j)
        ELSE Len(codes) + 1

\* the entries the double loop has written when it has completed the
\* functional units 1..n: a functional unit gets an entry only inside the
\* loop over the methods
CompletedNames(codes, methods, n) ==
    {codes[k][1] : k \in {j \in 1..n : methods # <<>>}}
ActivityOf(codes, name) ==
    activities_with_code(codes[CHOOSE k \in 1..Len(codes) : codes[k][1] = name][2])[1]
ResultsAfter(codes, methods, vanillin_production, n) ==
    [name \in CompletedNames(codes, methods, n) |->
        [m \in Range(methods) |->
            score(ActivityOf(codes, name), vanillin_production[name], m)]]
TopProcessesAfter(codes, methods, vanillin_production, n) ==
    [name \in CompletedNames(codes, methods, n) |->
        [m \in Range(methods) |->
            annotated_top_processes(ActivityOf(codes, name), vanillin_production[name], m)]]

calc_lca(methods, codes, vanillin_production, calc_done_arg) ==
    LET fail == FirstFailure(codes, vanillin_production)
        n    == fail - 1
    IN  /\ FU_codes' = codes
        /\ lcia_methods' = methods
        /\ LCA_results_dict' = ResultsAfter(codes, methods, vanillin_production, n)
        /\ top_processes_dict' =
               TopProcessesAfter(codes, methods, vanillin_production, n)
        /\ IF fail > Len(codes)
           THEN /\ calc_done' = TRUE
                /\ raised' = ""
           ELSE /\ calc_done' = calc_done_arg
                /\ raised' = IF activities_with_code(codes[fail][2]) = <<>>
                             THEN "IndexError" ELSE "KeyError"
        /\ assigned' = assigned \cup {"FU_codes", "lcia_methods", "calc_done",
                                       "top_processes_dict"}
        /\ called' = "calc_lca"
        /\ UNCHANGED <<analysis_done, impact_of_interest, n_top_items,
                       techno_impact_results_grouped, data_to_plot_dict>>

\* sum of the scores of the technosphere exchanges of act, by group_tag
RECURSIVE SumScores(_, _, _)
SumScores(excs, tag, method) ==
    IF excs = <<>> THEN 0
    ELSE (IF Head(excs).group_tag = tag
          THEN score(Head(excs).input, Head(excs).amount, method) ELSE 0)
         + SumScores(Tail(excs), tag, method)
GroupedScores(act, method) ==
    [tag \in {technosphere(act)[i].group_tag : i \in 1..Len(technosphere(act))} |->
        SumScores(technosphere(act), tag, method)]

\* assert self.impact_of_interest in self.LCA_results_dict.keys()
method_check(impact, results) == impact \in DOMAIN results

analyze_lca_flagfirst(impact, n_top, analysis_done_arg) ==
    /\ impact_of_interest' = impact
    /\ n_top_items' = n_top
    /\ called' = "analyze_lca"
    /\ analysis_done' = TRUE
    /\ IF ~ method_check(impact, LCA_results_dict)
       THEN /\ raised' = "AssertionError"
            /\ assigned' = assigned \cup {"impact_of_interest", "n_top_items"}
            /\ UNCHANGED techno_impact_results_grouped
       ELSE /\ techno_impact_results_grouped' = EmptyDict
            /\ assigned' = assigned \cup {"impact_of_interest", "n_top_items",
                                           "techno_impact_results_grouped"}
            /\ raised' = ""
    /\ UNCHANGED <<LCA_results_dict, top_processes_dict, calc_done, FU_codes,
                   lcia_methods, data_to_plot_dict>>
analyze_lca(impact, n_top, analysis_done_arg) ==
    /\ impact_of_interest' = impact
    /\ n_top_items' = n_top
    /\ called' = "analyze_lca"
    /\ IF ~ method_check(impact, LCA_results_dict)
       THEN /\ raised' = "AssertionError"
            /\ assigned' = assigned \cup {"impact_of_interest", "n_top_items"}
            /\ UNCHANGED <<analysis_done, techno_impact_results_grouped>>
       ELSE /\ analysis_done' = TRUE      \* self.analysis_done= True #analysis_done
            /\ techno_impact_results_grouped' = EmptyDict   \* defaultdict(list)
            /\ assigned' = assigned \cup {"impact_of_interest", "n_top_items",
                                           "techno_impact_results_grouped"}
            /\ IF ~ analysis_done'        \* while not self.analysis_done:
               THEN \* the body starts by slicing a dict entry of
                    \* top_processes_dict, which raises
                    raised' = "TypeError"
               ELSE raised' = ""
    /\ UNCHANGED <<LCA_results_dict, top_processes_dict, calc_done, FU_codes,
                   lcia_methods, data_to_plot_dict>>

gen_fig(data) ==
    /\ called' = "gen_fig"
    /\ IF analysis_done = TRUE
       THEN /\ raised' = ""
            /\ data_to_plot_dict' = data
            /\ assigned' = assigned \cup {"data_to_plot_dict"}
       ELSE /\ raised' = "AssertionError"
            /\ UNCHANGED <<data_to_plot_dict, assigned>>
    /\ UNCHANGED <<analysis_done, LCA_results_dict, top_processes_dict, calc_done,
                   FU_codes, lcia_methods, impact_of_interest, n_top_items,
                   techno_impact_results_grouped>>

gen_report ==
    /\ called' = "gen_report"
    /\ raised' = IF analysis_done = TRUE THEN "" ELSE "AssertionError"
    /\ UNCHANGED <<analysis_done, LCA_results_dict, top_processes_dict, calc_done,
                   FU_codes, lcia_methods, impact_of_interest, n_top_items,
                   techno_impact_results_grouped, data_to_plot_dict, assigned>>

DefaultTopItems == 5

CalcLca ==
    \E methods \in MethodLists, codes \in FUCodeDicts,
       vanillin_production \in ProductionDicts, calc_done_arg \in BOOLEAN :
        calc_lca(methods, codes, vanillin_production, calc_done_arg) /\ UNCHANGED <<mooVars, sweepVars>>
AnalyzeLca ==
    \E impact \in Keys, analysis_done_arg \in BOOLEAN :
        analyze_lca(impact, DefaultTopItems, analysis_done_arg) /\ UNCHANGED <<mooVars, sweepVars>>
GenFig == \E data \in PlotData : gen_fig(data) /\ UNCHANGED <<mooVars, sweepVars>>
GenReport == gen_report /\ UNCHANGED <<mooVars, sweepVars>>

NextLCA ==
    \/ CalcLca
    \/ AnalyzeLca
    \/ GenFig
    \/ GenReport

SpecLCA == InitLCA /\ [][NextLCA]_vars

InitGenerator ==
    /\ df = <<>>
    /\ InitMOO
    /\ InitObject
    /\ InitSweep

NextSweep == GenerateScenario

SpecSweep == InitGenerator /\ [][NextSweep]_vars


Init ==
    /\ df \in SeqsUpTo(SheetRows, MaxRows)
    /\ InitMOO
    /\ InitObject
    /\ InitSweep

\* cells "Filter out solutions with negative NPV" and "Separate filtered ..."
FilterCell ==
    /\ pc = "filter"
    /\ filtered_data' = FilterData(df)
    /\ pc' = "pareto"
    /\ UNCHANGED <<lcaVars, sweepVars>>
    /\ UNCHANGED <<df, filtered_points, pareto_front, optimal_indices, pareto_df,
                   min_gwp_index, max_npv_index, knee_index>>

\* cell "Function to identify Pareto front"
ParetoCell ==
    /\ pc = "pareto"
    /\ filtered_points' = [i \in 1..Len(filtered_data) |->
                              <<filtered_data[i][1], filtered_data[i][2]>>]
    /\ pareto_front' = ParetoFront(filtered_points')
    /\ optimal_indices' = [k \in 1..Len(pareto_front') |->
                              index(filtered_points', pareto_front'[k])]
    /\ pc' = "table"
    /\ UNCHANGED <<lcaVars, sweepVars>>
    /\ UNCHANGED <<df, filtered_data, pareto_df, min_gwp_index, max_npv_index, knee_index>>

\* cells "Extract Pareto-optimal GWP, NPV ..." and "Create a DataFrame ..."
TableCell ==
    /\ pc = "table"
    /\ pareto_df' = [k \in 1..Len(pareto_front) |->
                        <<pareto_front[k][1], pareto_front[k][2],
                          filtered_data[optimal_indices[k]][3],
                          filtered_data[optimal_indices[k]][4],
                          filtered_data[optimal_indices[k]][5]>>]
    /\ pc' = "min_gwp"
    /\ UNCHANGED <<lcaVars, sweepVars>>
    /\ UNCHANGED <<df, filtered_data, filtered_points, pareto_front, optimal_indices,
                   min_gwp_index, max_npv_index, knee_index>>

\* cell "min_gwp_index = np.argmin(pareto_GWP)"
MinGwpCell ==
    /\ pc = "min_gwp"
    /\ pareto_front # <<>>
    /\ min_gwp_index' = argmin(pareto_GWP(pareto_front))
    /\ pc' = "max_npv"
    /\ UNCHANGED <<lcaVars, sweepVars>>
    /\ UNCHANGED <<df, filtered_data, filtered_points, pareto_front, optimal_indices,
                   pareto_df, max_npv_index, knee_index>>

\* cell "max_npv_index = np.argmax(pareto_NPV)"
MaxNpvCell ==
    /\ pc = "max_npv"
    /\ max_npv_index' = argmax(pareto_NPV(pareto_front))
    /\ pc' = "knee"
    /\ UNCHANGED <<lcaVars, sweepVars>>
    /\ UNCHANGED <<df, filtered_data, filtered_points, pareto_front, optimal_indices,
                   pareto_df, min_gwp_index, knee_index>>

\* cell "Define an ideal point ... knee_index = np.argmin(distances)"
KneeCell ==
    /\ pc = "knee"
    /\ knee_index' = argmin(distances(pareto_front))
    /\ pc' = "done"
    /\ UNCHANGED <<lcaVars, sweepVars>>
    /\ UNCHANGED <<df, filtered_data, filtered_points, pareto_front, optimal_indices,
                   pareto_df, min_gwp_index, max_npv_index>>

\* np.argmin of an empty sequence raises ValueError: the run stops at that cell
EmptyFrontError ==
    /\ pc = "min_gwp"
    /\ pareto_front = <<>>
    /\ pc' = "ValueError"
    /\ UNCHANGED <<lcaVars, sweepVars>>
    /\ UNCHANGED <<df, filtered_data, filtered_points, pareto_front, optimal_indices,
                   pareto_df, min_gwp_index, max_npv_index, knee_index>>

Next ==
    \/ FilterCell
    \/ ParetoCell
    \/ TableCell
    \/ MinGwpCell
    \/ MaxNpvCell
    \/ KneeCell
    \/ EmptyFrontError

Spec == Init /\ [][Next]_vars

(***************************************************************************)
(* The worked example of the specification, as a second set of inputs:     *)
(* sheets of four rows drawn from its four points and an infeasible one.   *)
(***************************************************************************)
ExamplePoints == << <<-10, 100>>, <<-8, 150>>, <<-5, 90>>, <<-8, 80>> >>
InfeasiblePoint == <<-10, 0>>
ExampleRows ==
    {<<p[1], p[2], a[1], a[2], a[3]>> :
        p \in Range(ExamplePoints) \cup {InfeasiblePoint}, a \in PercentVals}

InitExample ==
    /\ df \in [1..Len(ExamplePoints) -> ExampleRows]
    /\ InitMOO
    /\ InitObject
    /\ InitSweep

SpecExample == InitExample /\ [][Next]_vars

(***************************************************************************)
(* Properties of the Pareto stage.                                         *)
(***************************************************************************)
FrontReady == pc \in {"table", "min_gwp", "max_npv", "knee", "done", "ValueError"}
Scenarios == 1..Len(filtered_points)
Members == 1..Len(pareto_front)

\* scenario i of the feasible list is on the returned front
InFront(i) == filtered_points[i] \in Range(pareto_front)
Occurrences(list, x) == Cardinality({k \in 1..Len(list) : list[k] = x})

NoWorse(a, b) == a[1] <= b[1] /\ a[2] >= b[2]
\* the rule of section 4.5 between scenarios: another scenario that is no worse
DominatesById(j, i) == j # i /\ NoWorse(filtered_points[j], filtered_points[i])
\* the rule between values: no worse, and not the same (gwp, npv)
DominatesByValue(a, b) == NoWorse(a, b) /\ a # b

\* C1 as stated: a scenario is on the front iff no other scenario of the input
\* is no worse than it in both objectives (scenario identity, so two scenarios
\* with equal values dominate each other).
C1_Original ==
    FrontReady =>
        \A i \in Scenarios : InFront(i) <=> ~ \E j \in Scenarios : DominatesById(j, i)

\* C1 amended: a scenario is on the front iff no scenario of the input with
\* different (gwp, npv) values is no worse than it in both objectives; the
\* front holds every occurrence of such a point and nothing else.
C1_FrontIsNonDominatedByValue ==
    FrontReady =>
        /\ Range(pareto_front) \subseteq Range(filtered_points)
        /\ \A i \in Scenarios :
              Occurrences(pareto_front, filtered_points[i]) =
                  IF \E j \in Scenarios : DominatesByValue(filtered_points[j], filtered_points[i])
                  THEN 0
                  ELSE Occurrences(filtered_points, filtered_points[i])

C1_Witness ==
    /\ FrontReady
    /\ \E i, j \in Scenarios : i # j /\ filtered_points[i] = filtered_points[j] /\ InFront(i)
    /\ \E i \in Scenarios : ~ InFront(i)

\* C2: every feasible scenario that is not on the front is dominated by a
\* member of the front.
C2_Completeness ==
    FrontReady =>
        \A i \in Scenarios :
            ~ InFront(i) =>
                \E k \in Members : DominatesByValue(pareto_front[k], filtered_points[i])

\* a scenario off the front that is dominated by another scenario off the front
C2_Witness ==
    /\ FrontReady
    /\ \E i, j \in Scenarios :
          /\ ~ InFront(i)
          /\ ~ InFront(j)
          /\ DominatesByValue(filtered_points[j], filtered_points[i])

\* C3 as stated: of two distinct members of the front (distinct scenarios),
\* neither is no worse than the other in both objectives.
C3_Original ==
    FrontReady =>
        \A a, b \in Members : a # b => ~ NoWorse(pareto_front[a], pareto_front[b])

\* C3 amended: of two members of the front with different (gwp, npv) values,
\* neither is no worse than the other in both objectives.
C3_AntichainByValue ==
    FrontReady =>
        \A a, b \in Members :
            pareto_front[a] # pareto_front[b] => ~ NoWorse(pareto_front[a], pareto_front[b])

C3_Witness ==
    /\ FrontReady
    /\ \E a, b \in Members : pareto_front[a] # pareto_front[b]
    /\ \E a, b \in Members : a # b /\ pareto_front[a] = pareto_front[b]

\* C4: filtering the returned front again returns the same list.
C4_Idempotent == FrontReady => ParetoFront(pareto_front) = pareto_front

C4_Witness ==
    /\ FrontReady
    /\ Len(pareto_front) >= 2
    /\ Len(pareto_front) < Len(filtered_points)

(***************************************************************************)
(* Properties of the representative configurations.                        *)
(***************************************************************************)
LeastOf(S) == CHOOSE x \in S : \A y \in S : x <= y
GreatestOf(S) == CHOOSE x \in S : \A y \in S : x >= y
IdealPoint == << LeastOf({pareto_front[k][1] : k \in Members}),
                 GreatestOf({pareto_front[k][2] : k \in Members}) >>
SquaredDistance(k) ==
    (pareto_front[k][1] - IdealPoint[1]) * (pareto_front[k][1] - IdealPoint[1])
    + (pareto_front[k][2] - IdealPoint[2]) * (pareto_front[k][2] - IdealPoint[2])

\* C5: the knee is a member of the front at least as close to the ideal point
\* (min gwp, max npv) as every other member, and the earliest such member.
C5_Knee ==
    pc = "done" =>
        /\ knee_index \in Members
        /\ \A k \in Members : SquaredDistance(knee_index) <= SquaredDistance(k)
        /\ \A k \in Members : k < knee_index => SquaredDistance(knee_index) < SquaredDistance(k)

\* two members with different values at the same, minimal, distance
C5_Witness ==
    /\ pc = "done"
    /\ \E k \in Members :
          /\ k # knee_index
          /\ pareto_front[k] # pareto_front[knee_index]
          /\ SquaredDistance(k) = SquaredDistance(knee_index)

\* C6: min_gwp_index is the first member with the least gwp of the front,
\* max_npv_index the first member with the greatest npv, the rows of the table
\* they select are those members, and the front is still the one the Pareto
\* stage returned.
C6_BestOfEach ==
    pc \in {"knee", "done"} =>
        /\ min_gwp_index \in Members
        /\ max_npv_index \in Members
        /\ \A k \in Members : pareto_front[min_gwp_index][1] <= pareto_front[k][1]
        /\ \A k \in Members : k < min_gwp_index =>
                                  pareto_front[min_gwp_index][1] < pareto_front[k][1]
        /\ \A k \in Members : pareto_front[max_npv_index][2] >= pareto_front[k][2]
        /\ \A k \in Members : k < max_npv_index =>
                                  pareto_front[max_npv_index][2] > pareto_front[k][2]
        /\ <<pareto_df[min_gwp_index][1], pareto_df[min_gwp_index][2]>>
               = pareto_front[min_gwp_index]
        /\ <<pareto_df[max_npv_index][1], pareto_df[max_npv_index][2]>>
               = pareto_front[max_npv_index]
        /\ pareto_front = ParetoFront(filtered_points)
        /\ Len(pareto_df) = Len(pareto_front)

\* several members attain the greatest npv and the least gwp
C6_Witness ==
    /\ pc = "done"
    /\ Len(pareto_front) >= 3
    /\ \E k \in Members : k # max_npv_index /\ pareto_front[k][2] = pareto_front[max_npv_index][2]
    /\ \E k \in Members : k # min_gwp_index /\ pareto_front[k][1] = pareto_front[min_gwp_index][1]

\* C7: on the input (-10,100), (-8,150), (-5,90), (-8,80) the front is
\* (-10,100), (-8,150), the lowest-GWP configuration (-10,100), the highest-NPV
\* configuration (-8,150), the ideal point (-10,150) and the knee (-8,150).
ExampleInput == [i \in 1..Len(df) |-> <<df[i][1], df[i][2]>>] = ExamplePoints
C7_Example ==
    /\ (ExampleInput /\ FrontReady) =>
           /\ Range(pareto_front) = {<<-10, 100>>, <<-8, 150>>}
           /\ Len(pareto_front) = Cardinality(Range(pareto_front))
    /\ (ExampleInput /\ pc = "done") =>
           /\ pareto_front[min_gwp_index] = <<-10, 100>>
           /\ pareto_front[max_npv_index] = <<-8, 150>>
           /\ <<ideal_gwp(pareto_front), ideal_npv(pareto_front)>> = <<-10, 150>>
           /\ pareto_front[knee_index] = <<-8, 150>>
           /\ <<pareto_df[knee_index][1], pareto_df[knee_index][2]>> = <<-8, 150>>

C7_Witness == ExampleInput /\ pc = "done"

(***************************************************************************)
(* Properties of the feasibility filter.                                   *)
(***************************************************************************)
\* g picks the rows of d that make up f, in order
IsEmbedding(g, f, d) ==
    /\ \A i \in 1..Len(f) : d[g[i]] = f[i]
    /\ \A i, j \in 1..Len(f) : i < j => g[i] < g[j]

\* C8: filtered_data is the rows of the sheet with npv > 0, in their order;
\* no member of the front has npv <= 0; a feasible scenario that is off the
\* front is dominated by a feasible scenario.
C8_FeasibilityFilter ==
    pc # "filter" =>
        /\ \A i \in 1..Len(filtered_data) : filtered_data[i][2] > 0
        /\ Len(filtered_data) = Cardinality({i \in 1..Len(df) : df[i][2] > 0})
        /\ \E g \in [1..Len(filtered_data) -> 1..Len(df)] : IsEmbedding(g, filtered_data, df)
        /\ FrontReady =>
              /\ \A k \in Members : pareto_front[k][2] > 0
              /\ \A i \in 1..Len(df) :
                    (df[i][2] > 0 /\ <<df[i][1], df[i][2]>> \notin Range(pareto_front)) =>
                        \E j \in 1..Len(df) :
                            /\ df[j][2] > 0
                            /\ DominatesByValue(<<df[j][1], df[j][2]>>, <<df[i][1], df[i][2]>>)

\* an infeasible row with the least gwp of the sheet, between two feasible rows
C8_Witness ==
    /\ FrontReady
    /\ Len(pareto_front) >= 1
    /\ \E i, j, k \in 1..Len(df) :
          /\ i < j /\ j < k
          /\ df[i][2] > 0 /\ df[j][2] <= 0 /\ df[k][2] > 0
          /\ df[j][1] < df[i][1] /\ df[j][1] < df[k][1]

(***************************************************************************)
(* Properties of analyze_lca.                                              *)
(***************************************************************************)
\* the most recent calc_lca stored a score for the method
Evaluated(method) ==
    \E name \in DOMAIN LCA_results_dict : method \in DOMAIN LCA_results_dict[name]

\* C9: after analyze_lca returns for an evaluated method,
\* techno_impact_results_grouped maps each group tag of the technosphere
\* exchanges of a functional unit of the run to the sum of the scores of the
\* exchanges with that tag, and has no other key.
C9_GroupedContributions ==
    (called = "analyze_lca" /\ raised = "" /\ Evaluated(impact_of_interest)) =>
        \E k \in 1..Len(FU_codes) :
            /\ FU_codes[k][1] \in DOMAIN LCA_results_dict
            /\ techno_impact_results_grouped =
                   GroupedScores(activities_with_code(FU_codes[k][2])[1], impact_of_interest)

\* C10: analyze_lca raises its AssertionError exactly when the method was not
\* evaluated by the most recent calc_lca.
C10_AssertIffNotEvaluated ==
    called = "analyze_lca" =>
        ((raised = "AssertionError") <=> ~ Evaluated(impact_of_interest))

(***************************************************************************)
(* Properties of the sweep of functional units.                            *)
(***************************************************************************)
\* C13: every scenario of the sweep gives every product a strictly positive
\* amount, the amounts adding up to the total; the finished sweep has
\* 100 / 1 scenarios, each with its own functional-unit code.
C13_NonZeroProduction ==
    /\ allocation # <<>> =>
          /\ allocation[1] + allocation[2] + allocation[3] = HalvesPerUnit * SweepFrom
          /\ \A p \in 1..Len(allocation) : allocation[p] > 0
    /\ sweep_i = SweepStop =>
          /\ Len(sweep_FU_codes) * SweepStep = SweepFrom
          /\ \A a, b \in 1..Len(sweep_FU_codes) :
                sweep_FU_codes[a][2] = sweep_FU_codes[b][2] => a = b

(***************************************************************************)
(* Properties of the flags of biorefinery_LCA.                             *)
(***************************************************************************)
GuardedCalls == {"gen_fig", "gen_report"}

\* C11: analysis_done is False on a new object and becomes True only in an
\* analyze_lca call that returns without raising; gen_fig and gen_report pass
\* their guard exactly when it is True and otherwise raise the AssertionError
\* of the guard; an analyze_lca call whose assertion fails leaves
\* analysis_done as it was.
C11_Step ==
    /\ called' \in GuardedCalls =>
          /\ raised' = "" <=> analysis_done = TRUE
          /\ raised' # "" => raised' = "AssertionError"
          /\ analysis_done' = analysis_done
    /\ (analysis_done' = TRUE /\ analysis_done = FALSE) =>
          (called' = "analyze_lca" /\ raised' = "")
    /\ (called' = "analyze_lca" /\ raised' = "AssertionError") =>
          analysis_done' = analysis_done
C11_GuardNeedsAnalysis ==
    (called = "__init__" => analysis_done = FALSE) /\ [][C11_Step]_vars

\* gen_fig is rejected after an analyze_lca call that failed on a filled
\* result mapping
C11_Witness ==
    /\ called = "gen_fig"
    /\ raised = "AssertionError"
    /\ impact_of_interest # NoKey
    /\ LCA_results_dict # EmptyDict

\* C12: when calc_done is True, LCA_results_dict has exactly one score for
\* every pair of a functional-unit name and a method of the last calc_lca call,
\* and no other entry.
C12_CompleteWhenDone ==
    ("calc_done" \in assigned /\ calc_done = TRUE) =>
        /\ \A k \in 1..Len(FU_codes) : \A m \in Range(lcia_methods) :
              /\ FU_codes[k][1] \in DOMAIN LCA_results_dict
              /\ m \in DOMAIN LCA_results_dict[FU_codes[k][1]]
        /\ \A name \in DOMAIN LCA_results_dict :
              /\ name \in {FU_codes[k][1] : k \in 1..Len(FU_codes)}
              /\ DOMAIN LCA_results_dict[name] = Range(lcia_methods)

\* C16: a calc_lca call leaves analysis_done False, so that gen_fig and
\* gen_report are rejected until analyze_lca has run on the new results.
C16_CalcResetsAnalysis == called = "calc_lca" => analysis_done = FALSE

(***************************************************************************)
(* Properties of the output table and of the shape of the front.           *)
(***************************************************************************)
TableReady == pc \in {"min_gwp", "max_npv", "knee", "done", "ValueError"}
OnFront(row) == <<row[1], row[2]>> \in Range(pareto_front)

\* C14: the table has one row per member of the front, and each row is the
\* row of filtered_data of the scenario that supplied its Total GWP and Total
\* NPV, percentages included: the table is the rows of filtered_data whose
\* scenario is on the front, in order.
C14_RowsKeepTheirAllocation ==
    TableReady =>
        /\ Len(pareto_df) = Len(pareto_front)
        /\ pareto_df = SelectSeq(filtered_data, OnFront)

\* C15: two feasible scenarios with the same (gwp, npv) are not dominated by
\* each other, and both are on the front when no point with other values
\* dominates them.
C15_EqualValuesBothStay ==
    FrontReady =>
        \A i, j \in Scenarios :
            (i # j /\ filtered_points[i] = filtered_points[j]) =>
                /\ ~ is_dominated(filtered_points[i], <<filtered_points[j]>>)
                /\ (\A k \in Scenarios :
                        ~ DominatesByValue(filtered_points[k], filtered_points[i])) =>
                       Occurrences(pareto_front, filtered_points[i])
                           = Occurrences(filtered_points, filtered_points[i])

\* three scenarios with the same values, all on the front
C15_Witness ==
    /\ FrontReady
    /\ Len(pareto_front) >= 3
    /\ \A a, b \in Members : pareto_front[a] = pareto_front[b]

\* C17: of two members of the front with different values, one has both the
\* lower gwp and the lower npv; the front is not empty when the feasible list
\* is not; the member of least gwp has the least npv of the front.
C17_StrictlyMonotoneFront ==
    /\ FrontReady =>
          /\ \A a, b \in Members :
                pareto_front[a] # pareto_front[b] =>
                    \/ pareto_front[a][1] < pareto_front[b][1]
                       /\ pareto_front[a][2] < pareto_front[b][2]
                    \/ pareto_front[b][1] < pareto_front[a][1]
                       /\ pareto_front[b][2] < pareto_front[a][2]
          /\ filtered_points # <<>> => pareto_front # <<>>
    /\ pc \in {"max_npv", "knee", "done"} =>
          \A k \in Members : pareto_front[min_gwp_index][2] <= pareto_front[k][2]

\* a front of three different points
C17_Witness ==
    /\ pc = "done"
    /\ Cardinality(Range(pareto_front)) >= 3

====
